---- MODULE Spec2Model ----
(***************************************************************************)
(* Model of go-tcp-file-stream (src/main.go): a TCP server whose accept    *)
(* loop spawns one handler (FileServer.read) per connection, and a client  *)
(* routine (send) that writes a length prefix followed by a payload.       *)
(*                                                                         *)
(* Widths are scaled: the prefix is PrefixLen digits in base ByteBase      *)
(* instead of 8 bytes in base 256; the int64 wrap-around is kept, with     *)
(* modulus ByteBase^PrefixLen.                                             *)
(***************************************************************************)
EXTENDS Integers, Sequences, FiniteSets, TLC

\* ---------------------------------------------------------------- bounds
PrefixLen == 2
ByteBase == 4
MaxSize == 2
MaxIters == 1

\* two connections: the one main's send goroutine dials, and one dialled by
\* some other client of the listening address
Conns == {1, 2}
SendConns == {1}
PeerConns == {2}

RECURSIVE Pow(_, _)
Pow(b, e) == IF e = 0 THEN 1 ELSE b * Pow(b, e - 1)

Mod == Pow(ByteBase, PrefixLen)
Half == Mod \div 2

Min(a, b) == IF a < b THEN a ELSE b

\* length prefixes another client may put on the stream, as unsigned words:
\* the small lengths and a word with the top bit set
RawSizes == (0..MaxSize) \cup {Half}

\* The code only copies payload bytes, it never looks at them, so payloads
\* are made of tokens: the i-th payload byte of connection c. They differ
\* within a payload and, position by position, between the connections.
Token(c, i) == (MaxSize * (c - 1) + i) % ByteBase

\* file := make([]byte, n) filled by io.ReadFull(rand.Reader, file)
RandFile(c, n) == [i \in 1..n |-> Token(c, i)]

\* ------------------------------------------------------------ conversions
\* int64(u): reinterpretation of an unsigned word as a signed one
ToSigned(u) == IF u >= Half THEN u - Mod ELSE u

\* uint64(v): reinterpretation of a signed word as an unsigned one
ToUnsigned(v) == v % Mod

\* a mutant of PutLittleEndian: most significant digit first
PutBigEndian(v) ==
  [i \in 1..PrefixLen |->
     (ToUnsigned(v) \div Pow(ByteBase, PrefixLen - i)) % ByteBase]

\* binary.Write(conn, binary.LittleEndian, int64(size)): least significant
\* digit first
PutLittleEndian(v) ==
  [i \in 1..PrefixLen |-> (ToUnsigned(v) \div Pow(ByteBase, i - 1)) % ByteBase]

RECURSIVE Uint(_)
Uint(bs) == IF bs = <<>> THEN 0 ELSE Head(bs) + ByteBase * Uint(Tail(bs))

\* binary.Read(conn, binary.LittleEndian, &size) with size an int64
ReadLittleEndian(bs) == ToSigned(Uint(bs))

\* ------------------------------------------------------------------ state
VARIABLES
  proc,       \* "running" | "fatalRead" (log.Fatal in read) | "fatalBind"
  srv,        \* where start is: "listen" | "accept" | "acceptErr" | "returned"
  link,       \* per connection: "none" | "pending" | "accepted"
  wire,       \* per connection: every byte the peer has put on the stream
  rd,         \* per connection: how many bytes of wire the server has read
  cclosed,    \* per connection: the peer has closed its end
  cpc,        \* per client: send is "idle" | "dial" | "prefix" | "payload" |
              \* "ret"; another client is "idle" | "raw" | "closed"
  csize,      \* per client: the argument of send
  file,       \* per client: the payload send generated
  wrErr,      \* per client: binary.Write failed (its error is discarded)
  sret,       \* per client: what send returned: "none" | "nil" | "err"
  cowner,     \* per client: send still holds the connection open
  sent,       \* per client: n, the bytes io.CopyN reports as written
  hpc,        \* per handler: "none" | "prefix" | "copy" | "print" | "done" |
              \* "fatal"
  size,       \* per handler: the local variable size
  got,        \* per handler: prefix bytes received so far by binary.Read
  rdErr,      \* per handler: binary.Read failed (its error is discarded)
  written,    \* per handler: bytes copied so far by the current CopyN
  nread,      \* per handler: conn.Read calls that fed the latest CopyN
  reqLen,     \* per handler: the count the latest CopyN returned
  buf,        \* per handler: the bytes.Buffer
  reports     \* per handler: the reqLen printed by each completed iteration

vars == <<proc, srv, link, wire, rd, cclosed, cpc, csize, file,
          wrErr, sret, cowner, sent, hpc, size, got, rdErr, written, nread,
          reqLen, buf, reports>>

netVars == <<link, wire, rd, cclosed>>
cliVars == <<cpc, csize, file, wrErr, sret, cowner, sent>>
hdlVars == <<hpc, size, got, rdErr, written, nread, reqLen, buf, reports>>

Init ==
  /\ proc = "running"
  /\ srv = "listen"
  /\ link = [c \in Conns |-> "none"]
  /\ wire = [c \in Conns |-> <<>>]
  /\ rd = [c \in Conns |-> 0]
  /\ cclosed = [c \in Conns |-> FALSE]
  /\ cpc = [c \in Conns |-> "idle"]
  /\ csize = [c \in Conns |-> 0]
  /\ file = [c \in Conns |-> <<>>]
  /\ wrErr = [c \in Conns |-> FALSE]
  /\ sret = [c \in Conns |-> "none"]
  /\ cowner = [c \in Conns |-> FALSE]
  /\ sent = [c \in Conns |-> 0]
  /\ hpc = [c \in Conns |-> "none"]
  /\ size = [c \in Conns |-> 0]
  /\ got = [c \in Conns |-> <<>>]
  /\ rdErr = [c \in Conns |-> FALSE]
  /\ written = [c \in Conns |-> 0]
  /\ nread = [c \in Conns |-> 0]
  /\ reqLen = [c \in Conns |-> 0]
  /\ buf = [c \in Conns |-> <<>>]
  /\ reports = [c \in Conns |-> <<>>]

\* bytes of the stream not yet read by the server
Avail(c) == Len(wire[c]) - rd[c]

\* the next k unread bytes of the stream
Next_k(c, k) == SubSeq(wire[c], rd[c] + 1, rd[c] + k)

\* --------------------------------------------------------- FileServer.start
\* net.Listen succeeds: start enters its accept loop
ListenOk ==
  /\ proc = "running" /\ srv = "listen"
  /\ srv' = "accept"
  /\ UNCHANGED <<proc, netVars, cliVars, hdlVars>>

\* a mutant of ListenFail: main drops the error start returns and goes on
ListenFailNoExit ==
  /\ proc = "running" /\ srv = "listen"
  /\ srv' = "returned"
  /\ UNCHANGED <<proc, netVars, cliVars, hdlVars>>

\* net.Listen fails: start returns the error and main's log.Fatal exits
ListenFail ==
  /\ proc = "running" /\ srv = "listen"
  /\ srv' = "returned"
  /\ proc' = "fatalBind"
  /\ UNCHANGED <<netVars, cliVars, hdlVars>>

\* listener.Accept returns a connection: go fs.read(conn), back to Accept
AcceptOk(c) ==
  /\ proc = "running" /\ srv = "accept"
  /\ link[c] = "pending"
  /\ link' = [link EXCEPT ![c] = "accepted"]
  /\ hpc' = [hpc EXCEPT ![c] = "prefix"]
  /\ UNCHANGED <<proc, srv, wire, rd, cclosed, cliVars>>
  /\ UNCHANGED <<size, got, rdErr, written, nread, reqLen, buf, reports>>

\* a mutant of AcceptFail: the error ends the loop and start returns
AcceptFailReturns ==
  /\ proc = "running" /\ srv = "accept"
  /\ srv' = "returned"
  /\ UNCHANGED <<proc, netVars, cliVars, hdlVars>>

\* listener.Accept returns an error
AcceptFail ==
  /\ proc = "running" /\ srv = "accept"
  /\ srv' = "acceptErr"
  /\ UNCHANGED <<proc, netVars, cliVars, hdlVars>>

\* the error is printed and the loop continues with the next Accept
AcceptRetry ==
  /\ proc = "running" /\ srv = "acceptErr"
  /\ srv' = "accept"
  /\ UNCHANGED <<proc, netVars, cliVars, hdlVars>>

\* ------------------------------------------------------------------- send
\* send(n): file := make([]byte, n); io.ReadFull(rand.Reader, file) succeeds
SendStart(c, n) ==
  /\ proc = "running" /\ cpc[c] = "idle"
  /\ cpc' = [cpc EXCEPT ![c] = "dial"]
  /\ csize' = [csize EXCEPT ![c] = n]
  /\ file' = [file EXCEPT ![c] = RandFile(c, n)]
  /\ UNCHANGED <<proc, srv, netVars, hdlVars, wrErr, sret, cowner, sent>>

\* io.ReadFull(rand.Reader, file) fails: return err
SendRandFail(c, n) ==
  /\ proc = "running" /\ cpc[c] = "idle"
  /\ cpc' = [cpc EXCEPT ![c] = "ret"]
  /\ csize' = [csize EXCEPT ![c] = n]
  /\ sret' = [sret EXCEPT ![c] = "err"]
  /\ UNCHANGED <<proc, srv, netVars, hdlVars, file, wrErr, cowner, sent>>

\* net.Dial succeeds: the connection waits in the listener's backlog
DialOk(c) ==
  /\ proc = "running" /\ cpc[c] = "dial"
  /\ srv \in {"accept", "acceptErr"}
  /\ cpc' = [cpc EXCEPT ![c] = "prefix"]
  /\ cowner' = [cowner EXCEPT ![c] = TRUE]
  /\ link' = [link EXCEPT ![c] = "pending"]
  /\ UNCHANGED <<proc, srv, wire, rd, cclosed, hdlVars>>
  /\ UNCHANGED <<csize, file, wrErr, sret, sent>>

\* net.Dial fails: return err
DialFail(c) ==
  /\ proc = "running" /\ cpc[c] = "dial"
  /\ cpc' = [cpc EXCEPT ![c] = "ret"]
  /\ sret' = [sret EXCEPT ![c] = "err"]
  /\ UNCHANGED <<proc, srv, netVars, hdlVars, csize, file, wrErr, cowner, sent>>

\* binary.Write(conn, binary.LittleEndian, int64(size)) succeeds
WritePrefixOk(c) ==
  /\ proc = "running" /\ cpc[c] = "prefix"
  /\ wire' = [wire EXCEPT ![c] = @ \o PutLittleEndian(csize[c])]
  /\ cpc' = [cpc EXCEPT ![c] = "payload"]
  /\ UNCHANGED <<proc, srv, link, rd, cclosed, hdlVars>>
  /\ UNCHANGED <<csize, file, wrErr, sret, cowner, sent>>

\* binary.Write fails after k bytes; its error is not looked at
WritePrefixFail(c, k) ==
  /\ proc = "running" /\ cpc[c] = "prefix"
  /\ k < PrefixLen
  /\ wire' = [wire EXCEPT ![c] = @ \o SubSeq(PutLittleEndian(csize[c]), 1, k)]
  /\ wrErr' = [wrErr EXCEPT ![c] = TRUE]
  /\ cpc' = [cpc EXCEPT ![c] = "payload"]
  /\ UNCHANGED <<proc, srv, link, rd, cclosed, hdlVars>>
  /\ UNCHANGED <<csize, file, sret, cowner, sent>>

\* a mutant of WritePayloadOk: send closes the connection when it is done
WritePayloadOkCloses(c) ==
  /\ proc = "running" /\ cpc[c] = "payload"
  /\ wire' = [wire EXCEPT ![c] = @ \o file[c]]
  /\ sent' = [sent EXCEPT ![c] = csize[c]]
  /\ cpc' = [cpc EXCEPT ![c] = "ret"]
  /\ sret' = [sret EXCEPT ![c] = "nil"]
  /\ cowner' = [cowner EXCEPT ![c] = FALSE]
  /\ cclosed' = [cclosed EXCEPT ![c] = TRUE]
  /\ UNCHANGED <<proc, srv, link, rd, hdlVars>>
  /\ UNCHANGED <<csize, file, wrErr>>

\* io.CopyN(conn, bytes.NewReader(file), int64(size)) copies all size
\* bytes (none at all when size is 0): print and return nil
WritePayloadOk(c) ==
  /\ proc = "running" /\ cpc[c] = "payload"
  /\ wire' = [wire EXCEPT ![c] = @ \o file[c]]
  /\ sent' = [sent EXCEPT ![c] = csize[c]]
  /\ cpc' = [cpc EXCEPT ![c] = "ret"]
  /\ sret' = [sret EXCEPT ![c] = "nil"]
  /\ UNCHANGED <<proc, srv, link, rd, cclosed, hdlVars>>
  /\ UNCHANGED <<csize, file, wrErr, cowner>>

\* io.CopyN fails after k < size bytes: return err
WritePayloadFail(c, k) ==
  /\ proc = "running" /\ cpc[c] = "payload"
  /\ k < csize[c]
  /\ wire' = [wire EXCEPT ![c] = @ \o SubSeq(file[c], 1, k)]
  /\ sent' = [sent EXCEPT ![c] = k]
  /\ cpc' = [cpc EXCEPT ![c] = "ret"]
  /\ sret' = [sret EXCEPT ![c] = "err"]
  /\ UNCHANGED <<proc, srv, link, rd, cclosed, hdlVars>>
  /\ UNCHANGED <<csize, file, wrErr, cowner>>

\* ------------------------------------------------ peers other than send
\* some other client connects to the listening address
RawConnect(c) ==
  /\ proc = "running" /\ cpc[c] = "idle"
  /\ srv \in {"accept", "acceptErr"}
  /\ cpc' = [cpc EXCEPT ![c] = "raw"]
  /\ link' = [link EXCEPT ![c] = "pending"]
  /\ UNCHANGED <<proc, srv, wire, rd, cclosed, hdlVars>>
  /\ UNCHANGED <<csize, file, wrErr, sret, cowner, sent>>

\* it writes the next bytes of a length prefix, in any split
RawWritePrefix(c, u, k) ==
  /\ proc = "running" /\ cpc[c] = "raw"
  /\ Len(wire[c]) < k /\ k <= PrefixLen
  /\ SubSeq(PutLittleEndian(u), 1, Len(wire[c])) = wire[c]
  /\ wire' = [wire EXCEPT ![c] = SubSeq(PutLittleEndian(u), 1, k)]
  /\ UNCHANGED <<proc, srv, link, rd, cclosed, cliVars, hdlVars>>

\* it writes one more byte after the prefix
RawWriteByte(c) ==
  /\ proc = "running" /\ cpc[c] = "raw"
  /\ Len(wire[c]) >= PrefixLen
  /\ Len(wire[c]) < PrefixLen + MaxSize
  /\ wire' = [wire EXCEPT ![c] = Append(@, Token(c, Len(@) - PrefixLen + 1))]
  /\ UNCHANGED <<proc, srv, link, rd, cclosed, cliVars, hdlVars>>

\* it closes its end of the connection
RawClose(c) ==
  /\ proc = "running" /\ cpc[c] = "raw"
  /\ cpc' = [cpc EXCEPT ![c] = "closed"]
  /\ cclosed' = [cclosed EXCEPT ![c] = TRUE]
  /\ UNCHANGED <<proc, srv, link, wire, rd, hdlVars>>
  /\ UNCHANGED <<csize, file, wrErr, sret, cowner, sent>>

\* -------------------------------------------------------- FileServer.read
\* binary.Read: io.ReadFull returns once all the prefix bytes have arrived
\* (however conn.Read split them); size is decoded and the loop is entered
ReadPrefix(c) ==
  /\ proc = "running" /\ hpc[c] = "prefix"
  /\ Avail(c) >= PrefixLen
  /\ got' = [got EXCEPT ![c] = Next_k(c, PrefixLen)]
  /\ rd' = [rd EXCEPT ![c] = @ + PrefixLen]
  /\ size' = [size EXCEPT ![c] = ReadLittleEndian(got'[c])]
  /\ hpc' = [hpc EXCEPT ![c] = "copy"]
  /\ UNCHANGED <<proc, srv, link, wire, cclosed, cliVars>>
  /\ UNCHANGED <<rdErr, written, nread, reqLen, buf, reports>>

\* binary.Read returns io.EOF or io.ErrUnexpectedEOF: the peer closed before
\* the whole prefix, and io.ReadFull has consumed what there was. The error
\* is not looked at, size keeps its zero value and the loop is entered
ReadPrefixEOF(c) ==
  /\ proc = "running" /\ hpc[c] = "prefix"
  /\ cclosed[c] /\ Avail(c) < PrefixLen
  /\ got' = [got EXCEPT ![c] = Next_k(c, Avail(c))]
  /\ rd' = [rd EXCEPT ![c] = Len(wire[c])]
  /\ rdErr' = [rdErr EXCEPT ![c] = TRUE]
  /\ hpc' = [hpc EXCEPT ![c] = "copy"]
  /\ UNCHANGED <<proc, srv, link, wire, cclosed, cliVars>>
  /\ UNCHANGED <<size, written, nread, reqLen, buf, reports>>

\* binary.Read returns another error of conn.Read (a reset connection): the
\* same, the error is not looked at
ReadPrefixErr(c) ==
  /\ proc = "running" /\ hpc[c] = "prefix"
  /\ ~cclosed[c]
  /\ rdErr' = [rdErr EXCEPT ![c] = TRUE]
  /\ hpc' = [hpc EXCEPT ![c] = "copy"]
  /\ UNCHANGED <<proc, srv, netVars, cliVars>>
  /\ UNCHANGED <<size, got, written, nread, reqLen, buf, reports>>

\* io.CopyN(buf, conn, size) with size <= 0: the LimitedReader is at its
\* limit at once, conn is not read, and CopyN returns (0, nil)
CopyNothing(c) ==
  /\ proc = "running" /\ hpc[c] = "copy"
  /\ size[c] <= 0
  /\ reqLen' = [reqLen EXCEPT ![c] = 0]
  /\ nread' = [nread EXCEPT ![c] = 0]
  /\ hpc' = [hpc EXCEPT ![c] = "print"]
  /\ UNCHANGED <<proc, srv, netVars, cliVars>>
  /\ UNCHANGED <<size, got, rdErr, written, buf, reports>>

\* a mutant of CopyRead: buf is one buffer shared by all the handlers
CopyReadShared(c, k) ==
  /\ proc = "running" /\ hpc[c] = "copy"
  /\ size[c] > 0
  /\ k >= 1 /\ k <= Min(Avail(c), size[c] - written[c])
  /\ buf' = [d \in Conns |-> buf[d] \o Next_k(c, k)]
  /\ rd' = [rd EXCEPT ![c] = @ + k]
  /\ nread' = [nread EXCEPT ![c] = IF written[c] = 0 THEN 1 ELSE @ + 1]
  /\ IF written[c] + k = size[c]
       THEN /\ reqLen' = [reqLen EXCEPT ![c] = written[c] + k]
            /\ written' = [written EXCEPT ![c] = 0]
            /\ hpc' = [hpc EXCEPT ![c] = "print"]
       ELSE /\ written' = [written EXCEPT ![c] = @ + k]
            /\ UNCHANGED <<reqLen, hpc>>
  /\ UNCHANGED <<proc, srv, link, wire, cclosed, cliVars>>
  /\ UNCHANGED <<size, got, rdErr, reports>>

\* a mutant of CopyRead: the count returned is that of the last conn.Read
CopyReadLastChunk(c, k) ==
  /\ proc = "running" /\ hpc[c] = "copy"
  /\ size[c] > 0
  /\ k >= 1 /\ k <= Min(Avail(c), size[c] - written[c])
  /\ buf' = [buf EXCEPT ![c] = @ \o Next_k(c, k)]
  /\ rd' = [rd EXCEPT ![c] = @ + k]
  /\ nread' = [nread EXCEPT ![c] = IF written[c] = 0 THEN 1 ELSE @ + 1]
  /\ IF written[c] + k = size[c]
       THEN /\ reqLen' = [reqLen EXCEPT ![c] = k]
            /\ written' = [written EXCEPT ![c] = 0]
            /\ hpc' = [hpc EXCEPT ![c] = "print"]
       ELSE /\ written' = [written EXCEPT ![c] = @ + k]
            /\ UNCHANGED <<reqLen, hpc>>
  /\ UNCHANGED <<proc, srv, link, wire, cclosed, cliVars>>
  /\ UNCHANGED <<size, got, rdErr, reports>>

\* io.CopyN(buf, conn, size) with size > 0: one conn.Read inside it returns
\* k bytes, appended to buf; when size bytes have been copied CopyN returns
\* (size, nil)
CopyRead(c, k) ==
  /\ proc = "running" /\ hpc[c] = "copy"
  /\ size[c] > 0
  /\ k >= 1 /\ k <= Min(Avail(c), size[c] - written[c])
  /\ buf' = [buf EXCEPT ![c] = @ \o Next_k(c, k)]
  /\ rd' = [rd EXCEPT ![c] = @ + k]
  /\ nread' = [nread EXCEPT ![c] = IF written[c] = 0 THEN 1 ELSE @ + 1]
  /\ IF written[c] + k = size[c]
       THEN /\ reqLen' = [reqLen EXCEPT ![c] = written[c] + k]
            /\ written' = [written EXCEPT ![c] = 0]
            /\ hpc' = [hpc EXCEPT ![c] = "print"]
       ELSE /\ written' = [written EXCEPT ![c] = @ + k]
            /\ UNCHANGED <<reqLen, hpc>>
  /\ UNCHANGED <<proc, srv, link, wire, cclosed, cliVars>>
  /\ UNCHANGED <<size, got, rdErr, reports>>

\* a mutant of PrintReceived: the loop ends after the first frame
PrintReceivedBreaks(c) ==
  /\ proc = "running" /\ hpc[c] = "print"
  /\ reports' = [reports EXCEPT ![c] =
                   IF Len(@) < MaxIters THEN Append(@, reqLen[c]) ELSE @]
  /\ hpc' = [hpc EXCEPT ![c] = "done"]
  /\ UNCHANGED <<proc, srv, netVars, cliVars>>
  /\ UNCHANGED <<size, got, rdErr, written, nread, reqLen, buf>>

\* a mutant of PrintReceived: size is declared inside the loop, so every
\* iteration starts with a fresh, zero size
PrintReceivedRedeclares(c) ==
  /\ proc = "running" /\ hpc[c] = "print"
  /\ reports' = [reports EXCEPT ![c] =
                   IF Len(@) < MaxIters THEN Append(@, reqLen[c]) ELSE @]
  /\ size' = [size EXCEPT ![c] = 0]
  /\ hpc' = [hpc EXCEPT ![c] = "copy"]
  /\ UNCHANGED <<proc, srv, netVars, cliVars>>
  /\ UNCHANGED <<got, rdErr, written, nread, reqLen, buf>>

\* fmt.Println(buf.Bytes()); fmt.Printf("Received %d bytes\n", reqLen); the
\* loop goes round. (The model keeps the first MaxIters printed counts.)
PrintReceived(c) ==
  /\ proc = "running" /\ hpc[c] = "print"
  /\ reports' = [reports EXCEPT ![c] =
                   IF Len(@) < MaxIters THEN Append(@, reqLen[c]) ELSE @]
  /\ hpc' = [hpc EXCEPT ![c] = "copy"]
  /\ UNCHANGED <<proc, srv, netVars, cliVars>>
  /\ UNCHANGED <<size, got, rdErr, written, nread, reqLen, buf>>

\* a mutant of CopyEOF: the short read is taken for a completed iteration
CopyEOFCompletes(c) ==
  /\ proc = "running" /\ hpc[c] = "copy"
  /\ size[c] > 0
  /\ cclosed[c] /\ Avail(c) = 0
  /\ reqLen' = [reqLen EXCEPT ![c] = written[c]]
  /\ hpc' = [hpc EXCEPT ![c] = "print"]
  /\ UNCHANGED <<proc, srv, netVars, cliVars>>
  /\ UNCHANGED <<size, got, rdErr, written, nread, buf, reports>>

\* a mutant of CopyEOF: read ends with conn.Close(), as a deferred close would
CopyEOFCloses(c) ==
  /\ proc = "running" /\ hpc[c] = "copy"
  /\ size[c] > 0
  /\ cclosed[c] /\ Avail(c) = 0
  /\ hpc' = [hpc EXCEPT ![c] = "done"]
  /\ link' = [link EXCEPT ![c] = "closed"]
  /\ UNCHANGED <<proc, srv, wire, rd, cclosed, cliVars>>
  /\ UNCHANGED <<size, got, rdErr, written, nread, reqLen, buf, reports>>

\* conn.Read inside CopyN reports end of stream before size bytes: CopyN
\* returns (written, io.EOF) and the loop breaks
CopyEOF(c) ==
  /\ proc = "running" /\ hpc[c] = "copy"
  /\ size[c] > 0
  /\ cclosed[c] /\ Avail(c) = 0
  /\ hpc' = [hpc EXCEPT ![c] = "done"]
  /\ UNCHANGED <<proc, srv, netVars, cliVars>>
  /\ UNCHANGED <<size, got, rdErr, written, nread, reqLen, buf, reports>>

\* conn.Read inside CopyN returns another error (a reset connection):
\* log.Fatal(err) exits the process
CopyErr(c) ==
  /\ proc = "running" /\ hpc[c] = "copy"
  /\ size[c] > 0 /\ ~cclosed[c]
  /\ hpc' = [hpc EXCEPT ![c] = "fatal"]
  /\ proc' = "fatalRead"
  /\ UNCHANGED <<srv, netVars, cliVars>>
  /\ UNCHANGED <<size, got, rdErr, written, nread, reqLen, buf, reports>>

\* ---------------------------------------------------------- specification
Server ==
  \/ ListenOk
  \/ ListenFail
  \/ \E c \in Conns : AcceptOk(c)
  \/ AcceptFail
  \/ AcceptRetry

Sender(c) ==
  \/ \E n \in 0..MaxSize : SendStart(c, n)
  \/ \E n \in 0..MaxSize : SendRandFail(c, n)
  \/ DialOk(c)
  \/ DialFail(c)
  \/ WritePrefixOk(c)
  \/ \E k \in 0..(PrefixLen - 1) : WritePrefixFail(c, k)
  \/ WritePayloadOk(c)
  \/ \E k \in 0..(MaxSize - 1) : WritePayloadFail(c, k)

Peer(c) ==
  \/ RawConnect(c)
  \/ \E u \in RawSizes : \E k \in 1..PrefixLen : RawWritePrefix(c, u, k)
  \/ RawWriteByte(c)
  \/ RawClose(c)

Handler(c) ==
  \/ ReadPrefix(c)
  \/ ReadPrefixEOF(c)
  \/ ReadPrefixErr(c)
  \/ CopyNothing(c)
  \/ \E k \in 1..MaxSize : CopyRead(c, k)
  \/ PrintReceived(c)
  \/ CopyEOF(c)
  \/ CopyErr(c)

Next ==
  \/ Server
  \/ \E c \in SendConns : Sender(c)
  \/ \E c \in PeerConns : Peer(c)
  \/ \E c \in Conns : Handler(c)

Spec == Init /\ [][Next]_vars

\* The Go scheduler runs every goroutine that can run: a handler that is not
\* blocked in a read takes its next step. Read errors are the network's
\* doing and are not forced.
HandlerRun(c) ==
  \/ ReadPrefix(c)
  \/ ReadPrefixEOF(c)
  \/ CopyNothing(c)
  \/ \E k \in 1..MaxSize : CopyRead(c, k)
  \/ PrintReceived(c)
  \/ CopyEOF(c)

FairSpec == Spec /\ \A c \in Conns : WF_vars(HandlerRun(c))

\* ================================================================ claims
\* the bytes of connection c's stream that follow the length prefix
WirePayload(c) == SubSeq(wire[c], PrefixLen + 1, Len(wire[c]))

\* the handler of c has read the whole prefix without an error
Decoded(c) == hpc[c] \in {"copy", "print", "done", "fatal"} /\ ~rdErr[c]

\* C1 -- round trip: when both writes of send(n) succeeded and the handler
\* has consumed everything send put on the connection, the handler's size is
\* n and its buffer is the file send generated, byte for byte.
C1_RoundTrip ==
  \A c \in SendConns :
    (sret[c] = "nil" /\ ~wrErr[c] /\ hpc[c] # "none" /\ rd[c] = Len(wire[c]))
      => (size[c] = csize[c] /\ buf[c] = file[c])

\* a send of MaxSize bytes has been received whole
C1_Witness ==
  \E c \in SendConns :
    /\ sret[c] = "nil" /\ ~wrErr[c] /\ csize[c] = MaxSize
    /\ hpc[c] = "copy" /\ rd[c] = Len(wire[c])
    /\ buf[c] = file[c] /\ Len(buf[c]) = MaxSize

\* C2 -- zero-length frame: when the decoded prefix is 0 the handler
\* accumulates nothing and, once the first pass of its loop is over, it has
\* left the loop (it does not go round again).
C2_ZeroLengthTerminates ==
  \A c \in Conns :
    (Decoded(c) /\ size[c] = 0)
      => /\ buf[c] = <<>>
         /\ (Len(reports[c]) >= 1 => hpc[c] = "done")

\* C3 -- truncated prefix: a handler whose binary.Read failed (the stream
\* ended or broke before the whole prefix) never is in the payload loop.
C3_TruncatedPrefixAborts ==
  \A c \in Conns : rdErr[c] => hpc[c] \notin {"copy", "print"}

\* C4 -- error scoping: a handler that met a non-EOF payload read error has
\* ended alone; the process is still running.
C4_ErrorScoped ==
  (\E c \in Conns : hpc[c] = "fatal") => proc = "running"

C6_LeavesLoopOnClose ==
  \A c \in Conns :
    (cclosed[c] /\ Decoded(c) /\ hpc[c] \in {"copy", "print"})
      ~> (hpc[c] = "done")

\* a frame of n payload bytes is all there is on connection c's stream
FrameOn(c, n) ==
  /\ Len(wire[c]) = PrefixLen + n
  /\ SubSeq(wire[c], 1, PrefixLen) = PutLittleEndian(n)

\* C7 -- independent connections: under every interleaving, the buffer of
\* each handler holds bytes of its own stream only, in stream order, and its
\* size is the one its own stream declared; when a frame is all its stream
\* holds and the handler has consumed it, the buffer is that frame's payload.
C7_IndependentConnections ==
  \A c \in Conns :
    /\ Len(buf[c]) <= Len(WirePayload(c))
    /\ buf[c] = SubSeq(WirePayload(c), 1, Len(buf[c]))
    /\ Decoded(c) => size[c] = ReadLittleEndian(SubSeq(wire[c], 1, PrefixLen))
    /\ ~Decoded(c) => size[c] = 0
    /\ \A n \in 0..MaxSize :
         (FrameOn(c, n) /\ Decoded(c) /\ rd[c] = Len(wire[c]))
           => (size[c] = n /\ buf[c] = WirePayload(c))

\* two frames of different sizes, one on each connection, both in flight at
\* once and both received
C7_Witness ==
  /\ FrameOn(1, MaxSize) /\ FrameOn(2, 1)
  /\ hpc[1] = "copy" /\ hpc[2] = "copy"
  /\ Len(buf[1]) = MaxSize /\ Len(buf[2]) = 1
  /\ buf[1] # buf[2]

\* C8 -- chunked delivery: for a declared size n > 0, however conn.Read
\* splits the payload, the first completed iteration reports n and at that
\* moment the buffer holds the first n payload bytes of the stream, in the
\* order they were written.
C8_ChunkedDelivery ==
  \A c \in Conns :
    /\ (hpc[c] = "print" /\ reports[c] = <<>> /\ size[c] > 0)
         => /\ reqLen[c] = size[c]
            /\ buf[c] = SubSeq(WirePayload(c), 1, size[c])
    /\ (Len(reports[c]) >= 1 /\ size[c] > 0)
         => /\ reports[c][1] = size[c]
            /\ SubSeq(buf[c], 1, size[c]) = SubSeq(WirePayload(c), 1, size[c])

\* a payload of MaxSize bytes came in MaxSize reads of one byte each, and the
\* first iteration has just completed
C8_Witness ==
  \E c \in Conns :
    /\ hpc[c] = "print" /\ reports[c] = <<>>
    /\ size[c] = MaxSize /\ MaxSize >= 2 /\ nread[c] = MaxSize

\* the handlers a step starts
Spawned == {c \in Conns : hpc[c] = "none" /\ hpc'[c] # "none"}

\* C9 -- accept loop: once in its accept loop, start stays in it. A
\* successful accept starts exactly one handler, for the connection accepted,
\* and start is back at Accept; a failed accept starts none and the loop goes
\* on. Accepting a pending connection never waits for a handler.
C9_AcceptLoop ==
  /\ [][/\ srv \in {"accept", "acceptErr"} => srv' \in {"accept", "acceptErr"}
        /\ Cardinality(Spawned) <= 1
        /\ \A c \in Conns :
             (link[c] = "pending" /\ link'[c] = "accepted") <=> c \in Spawned
        /\ \A c \in Spawned :
             srv = "accept" /\ srv' = "accept" /\ hpc'[c] = "prefix"
        /\ (srv = "accept" /\ srv' = "acceptErr")
             => (Spawned = {} /\ link' = link /\ hpc' = hpc)
        /\ srv = "acceptErr" => Spawned = {}]_vars
  /\ [](\A c \in Conns :
          (proc = "running" /\ srv = "accept" /\ link[c] = "pending")
            => ENABLED AcceptOk(c))

\* a failed accept after two handlers were started, neither of which has
\* taken a step
C9_Witness ==
  /\ srv = "acceptErr" /\ proc = "running"
  /\ hpc[1] = "prefix" /\ hpc[2] = "prefix"
  /\ rd[1] = 0 /\ rd[2] = 0

\* C10 -- sender error reporting: when a write of send failed, send has
\* returned an error, and after a failed prefix write no payload byte was
\* written.
C10_SendReportsWriteErrors ==
  \A c \in SendConns :
    /\ (cpc[c] = "ret" /\ wrErr[c]) => sret[c] = "err"
    /\ wrErr[c] => sent[c] = 0

\* C11 -- sender wire order: when send(size) has returned nil, what it put on
\* the connection is the little-endian prefix of size followed by the size
\* payload bytes, PrefixLen + size bytes in all.
C11_SenderWireOrder ==
  \A c \in SendConns :
    sret[c] = "nil"
      => /\ wire[c] = PutLittleEndian(csize[c]) \o file[c]
         /\ Len(wire[c]) = PrefixLen + csize[c]

\* C12 -- unsigned length: the size a handler has decoded is the unsigned
\* little-endian value of the prefix bytes it read.
C12_UnsignedLength ==
  \A c \in Conns : Decoded(c) => size[c] = Uint(got[c])

\* C13 -- the sender leaves the connection open: whenever send has returned
\* after a successful dial (both writes done, or the prefix write failed, or
\* the payload write failed), the connection it opened is still open.
C13_SenderLeavesOpen ==
  \A c \in SendConns :
    (cpc[c] = "ret" /\ link[c] # "none") => (cowner[c] /\ ~cclosed[c])

\* send has returned nil and the handler, having received the whole frame,
\* waits on the connection that is still open
C13_Witness ==
  \E c \in SendConns :
    /\ cpc[c] = "ret" /\ sret[c] = "nil" /\ ~wrErr[c] /\ csize[c] > 0
    /\ hpc[c] = "copy" /\ rd[c] = Len(wire[c])
    /\ cowner[c] /\ ~cclosed[c]

\* C14 -- bind failure: when start has returned (net.Listen failed), the
\* process has been stopped by main's log.Fatal, no connection was ever
\* made or accepted and no handler was started.
C14_BindFailure ==
  srv = "returned"
    => /\ proc = "fatalBind"
       /\ \A c \in Conns : link[c] = "none" /\ hpc[c] = "none"

\* the bind failed while the send goroutine was about to dial
C14_Witness ==
  /\ srv = "returned" /\ proc = "fatalBind"
  /\ \E c \in SendConns : cpc[c] = "dial"

RECURSIVE SeqSum(_)
SeqSum(q) == IF q = <<>> THEN 0 ELSE Head(q) + SeqSum(Tail(q))

\* C15 -- reported counts sum to bytes received: when a handler has left its
\* loop (and every count it printed is on record), the sum of the counts it
\* printed is the number of payload bytes in its buffer.
C15_ReportsSumToReceived ==
  \A c \in Conns :
    (hpc[c] = "done" /\ Len(reports[c]) < MaxIters)
      => SeqSum(reports[c]) = Len(buf[c])

\* C16 -- one frame per handler: a handler never holds more payload bytes
\* than the size it decoded.
C16_OneFramePerHandler ==
  \A c \in Conns :
    (Decoded(c) /\ size[c] >= 0) => Len(buf[c]) <= size[c]

\* C17 -- prefix decoded once: once a handler is past binary.Read, no step
\* changes its size or the prefix bytes it decoded; those are the first
\* PrefixLen bytes of its stream, and no payload byte is read before them.
C17_PrefixDecodedOnce ==
  /\ [][\A c \in Conns :
          hpc[c] \in {"copy", "print", "done", "fatal"}
            => (size'[c] = size[c] /\ got'[c] = got[c])]_vars
  /\ [](\A c \in Conns :
          /\ Decoded(c) => /\ got[c] = SubSeq(wire[c], 1, PrefixLen)
                           /\ size[c] = ReadLittleEndian(got[c])
          /\ buf[c] # <<>> => (Decoded(c) /\ rd[c] > PrefixLen))

\* a handler in its second iteration: a second chunk of size bytes is in the
\* buffer and size is what the prefix said
C17_Witness ==
  \E c \in Conns :
    /\ hpc[c] = "print" /\ Decoded(c) /\ size[c] = 1
    /\ reports[c] = <<1>> /\ Len(buf[c]) = 2

\* the handler of a connection that send wrote one whole frame of n > 0 bytes
\* on is in its second bounded read: the first iteration took the n bytes
SecondRead(c) ==
  /\ sret[c] = "nil" /\ ~wrErr[c] /\ csize[c] > 0
  /\ hpc[c] = "copy" /\ written[c] = 0 /\ buf[c] = file[c]

\* C18 -- the reference sender never lets the receiver finish: the handler of
\* a connection dialled by send(n), n > 0, never reaches the end of read; after
\* a whole frame it completes exactly one iteration of n bytes, and in its
\* second bounded read it has no step to take and stays there as long as the
\* process runs and the read does not fail.
C18_SenderNeverLetsReceiverFinish ==
  /\ [](\A c \in SendConns : csize[c] > 0 => hpc[c] # "done")
  /\ [](\A c \in SendConns :
          (sret[c] = "nil" /\ ~wrErr[c] /\ csize[c] > 0 /\ Decoded(c))
            => /\ size[c] = csize[c]
               /\ Len(buf[c]) <= csize[c]
               /\ (hpc[c] = "print" => (reqLen[c] = csize[c] /\ buf[c] = file[c])))
  /\ [](\A c \in SendConns : SecondRead(c) => ~ENABLED HandlerRun(c))
  /\ [][\A c \in SendConns :
          SecondRead(c) => (SecondRead(c)' \/ hpc'[c] = "fatal")]_vars

\* send(n) has returned nil and the handler, having printed n, waits for more
C18_Witness ==
  \E c \in SendConns :
    /\ proc = "running" /\ SecondRead(c)
    /\ reports[c] = <<csize[c]>> /\ rd[c] = Len(wire[c])

\* the connections the server holds open
ServerOpen == {c \in Conns : link[c] = "accepted"}

\* C19 -- the handler never releases its connection: an accepted connection
\* stays accepted in every step, so the number of connections the server holds
\* open never decreases, and a handler that has left read, by the break or by
\* the fatal abort, still has its connection open.
C19_HandlerNeverReleases ==
  /\ [][/\ ServerOpen \subseteq ServerOpen'
        /\ Cardinality(ServerOpen') >= Cardinality(ServerOpen)]_vars
  /\ [](\A c \in Conns :
          hpc[c] \in {"done", "fatal"} => link[c] = "accepted")

\* a handler has left its loop at the end of the stream; the peer closed its
\* end, the server's end is still open
C19_Witness ==
  \E c \in Conns :
    /\ hpc[c] = "done" /\ cclosed[c] /\ Len(buf[c]) > 0
    /\ link[c] = "accepted"

====
